---- MODULE Spec2Model ----
(***************************************************************************)
(* Model of the sampling-aware relationship statistics of                  *)
(* sample_account_analyzer.py (class SampleAccountAnalyzer).               *)
(*                                                                         *)
(* Numbers.  Python floats and MySQL decimals are modelled exactly as      *)
(* integers scaled by 100 ("hundredths"):                                  *)
(*   - a sample rate r is the integer 100*r (0.4 is 40, 0.01 is 1);        *)
(*   - the SQL factor 1.0/rate is the integer 100*(1.0/rate); the rates of *)
(*     SampleRates are those for which the float quotient printed into the *)
(*     SQL text has at most two decimals, so the scaled value is exact;    *)
(*   - a value rounded by round(x, 2) is the integer 100*round(x, 2).      *)
(* round(x, 2) is modelled on the exact quotient, ties to even.  A tie in  *)
(* sum/len needs len to be a multiple of 8 and a tie in count*100/total    *)
(* needs total to be a multiple of 32, both beyond the bounds used here.   *)
(***************************************************************************)
EXTENDS Integers, Sequences, FiniteSets, TLC

\* ------------------------------------------------------------------ bounds

\* longest owner key list (account_ids, person_ids) and value list explored
MaxLen == 3
\* largest raw COUNT(*) a grouped row carries
MaxRaw == 3

\* owner keys (account ids, person ids)
Keys == {1, 2}
\* raw COUNT(*) of a grouped row: a group exists only if it has a row
RawCounts == 1..MaxRaw
\* activity_sample_rate in hundredths: -0.5, 0, 0.01, 0.4, 1.0, 2.0
SampleRates == {-50, 0, 1, 40, 100, 200}
\* activity_time_range_days
TimeRanges == {30, 90}

\* float('inf') as the upper end of the last range of a bucket table
Inf == 2147483647

\* ----------------------------------------------------------- sequences

RECURSIVE SumSeq(_)
\* sum(values)
SumSeq(s) == IF s = <<>> THEN 0 ELSE Head(s) + SumSeq(Tail(s))

\* min(values), for a non-empty list
MinSeq(s) == CHOOSE m \in {s[i] : i \in 1..Len(s)} : \A i \in 1..Len(s) : m <= s[i]

\* max(values), for a non-empty list
MaxSeq(s) == CHOOSE m \in {s[i] : i \in 1..Len(s)} : \A i \in 1..Len(s) : m >= s[i]

\* len([c for c in counts if c > 0])
CountPositive(s) == Cardinality({i \in 1..Len(s) : s[i] > 0})

\* len([c for c in counts if c == 0])
CountZero(s) == Cardinality({i \in 1..Len(s) : s[i] = 0})

\* all lists over S of length at most n
SeqsUpTo(S, n) == UNION {[1..k -> S] : k \in 0..n}

\* the keys of a list
Range(s) == {s[i] : i \in 1..Len(s)}

\* ------------------------------------------------------------- numbers

\* Round2 rounding an intermediate value first: the quotient is rounded to one
\* decimal and that value is written with two
Round2Twice(num, den) ==
    LET q == (num * 10) \div den
        r == (num * 10) % den
    IN  10 * (IF 2 * r < den THEN q
              ELSE IF 2 * r > den THEN q + 1
              ELSE IF q % 2 = 0 THEN q ELSE q + 1)

\* round(num / den, 2) in hundredths, for num >= 0 and den > 0
Round2(num, den) ==
    LET q == (num * 100) \div den
        r == (num * 100) % den
    IN  IF 2 * r < den THEN q
        ELSE IF 2 * r > den THEN q + 1
        ELSE IF q % 2 = 0 THEN q ELSE q + 1

RECURSIVE NewtonSqrt(_, _)
NewtonSqrt(n, x) ==
    LET y == (x + n \div x) \div 2
    IN  IF y >= x THEN x ELSE NewtonSqrt(n, y)

\* floor(sqrt(n))
ISqrt(n) == IF n = 0 THEN 0 ELSE NewtonSqrt(n, n)

\* floor(200 * sqrt(d)), computed without leaving 32 bits:
\* with a = floor(sqrt(d)) and 200a + b the result, (200a+b)^2 <= 40000 d
\* is 400ab + b^2 <= 40000 (d - a^2)
Sqrt200(d) ==
    LET a == ISqrt(d)
        r == d - a * a
        Fits(b) == 400 * a * b + b * b <= 40000 * r
        b == CHOOSE x \in 0..199 : Fits(x) /\ (x = 199 \/ ~Fits(x + 1))
    IN  200 * a + b

\* int(x) of a decimal x given in hundredths: truncation toward zero
IntOf(x) == IF x >= 0 THEN x \div 100 ELSE -((-x) \div 100)

\* the text {1.0/self.activity_sample_rate} of the SQL, in hundredths;
\* exact for the rates of SampleRates (each divides 10000)
InverseRate(rate) == IF rate > 0 THEN 10000 \div rate ELSE -(10000 \div (-rate))

\* ------------------------------------------------------------ statistics

\* calculate_std dividing by n - 1 (the sample standard deviation):
\* sqrt(R / (n (n - 1))) = sqrt(R n (n - 1)) / (n (n - 1))
calculate_std_sample(values) ==
    LET n == Len(values)
        squares == [i \in 1..n |-> values[i] * values[i]]
        R == n * SumSeq(squares) - SumSeq(values) * SumSeq(values)
    IN  IF n < 2 THEN [radicand |-> 0, den |-> 1]
        ELSE [radicand |-> R * n * (n - 1), den |-> n * (n - 1)]

\* _calculate_std: the population standard deviation, kept exact as
\* sqrt(radicand) / den, where variance = (n * sum(x^2) - sum(x)^2) / n^2
calculate_std(values) ==
    LET n == Len(values)
        squares == [i \in 1..n |-> values[i] * values[i]]
    IN  IF n < 2 THEN [radicand |-> 0, den |-> 1]
        ELSE [radicand |-> n * SumSeq(squares) - SumSeq(values) * SumSeq(values),
              den |-> n]

\* round(self._calculate_std(counts), 2) in hundredths: the nearest hundredth
\* of sqrt(radicand)/den is floor((200 sqrt(radicand) + den) / (2 den))
RoundStd2(std) == (Sqrt200(std.radicand) + std.den) \div (2 * std.den)

\* relationship_stats averaging over the owners that have a related record
\* only, instead of over every entry of the list
relationship_stats_avg_nonzero(counts) ==
    [sample_size     |-> Len(counts),
     with_related    |-> CountPositive(counts),
     without_related |-> CountZero(counts),
     total_related   |-> SumSeq(counts),
     avg |-> IF CountPositive(counts) > 0
             THEN Round2(SumSeq(counts), CountPositive(counts)) ELSE 0,
     min |-> IF counts # <<>> THEN MinSeq(counts) ELSE 0,
     max |-> IF counts # <<>> THEN MaxSeq(counts) ELSE 0,
     std |-> IF counts # <<>> THEN RoundStd2(calculate_std(counts)) ELSE 0]

\* the statistics every relationship analysis derives from its count list.
\* Keys of the source documents: sample_size (sample_persons),
\* with_related (accounts_with_persons, accounts_with_activities,
\* persons_with_activities, accounts_in_lists), without_related
\* (accounts_without_..., accounts_not_in_lists), total_related (total_persons,
\* total_activities, total_memberships), avg/min/max/std (avg_..._per_account).
\* avg and std are in hundredths.
relationship_stats(counts) ==
    [sample_size     |-> Len(counts),
     with_related    |-> CountPositive(counts),
     without_related |-> CountZero(counts),
     total_related   |-> SumSeq(counts),
     avg |-> IF counts # <<>> THEN Round2(SumSeq(counts), Len(counts)) ELSE 0,
     min |-> IF counts # <<>> THEN MinSeq(counts) ELSE 0,
     max |-> IF counts # <<>> THEN MaxSeq(counts) ELSE 0,
     std |-> IF counts # <<>> THEN RoundStd2(calculate_std(counts)) ELSE 0]

\* --------------------------------------------------------------- buckets

\* buckets[label] += 1
Increment(bucket_counts, label) == [bucket_counts EXCEPT ![label] = @ + 1]

RECURSIVE ScanRangesNoBreak(_, _, _, _, _)
\* ScanRanges without the break: every range that contains the value counts
ScanRangesNoBreak(bucket_counts, value, rs, ls, i) ==
    IF i > Len(rs) \/ i > Len(ls) THEN bucket_counts
    ELSE IF rs[i][1] <= value /\ value <= rs[i][2]
         THEN ScanRangesNoBreak(Increment(bucket_counts, ls[i]), value, rs, ls, i + 1)
         ELSE ScanRangesNoBreak(bucket_counts, value, rs, ls, i + 1)

RECURSIVE ScanRangesExclusive(_, _, _, _, _)
\* ScanRanges taking the upper bound of a range as exclusive
ScanRangesExclusive(bucket_counts, value, rs, ls, i) ==
    IF i > Len(rs) \/ i > Len(ls) THEN bucket_counts
    ELSE IF rs[i][1] <= value /\ value < rs[i][2]
         THEN Increment(bucket_counts, ls[i])
         ELSE ScanRangesExclusive(bucket_counts, value, rs, ls, i + 1)

RECURSIVE ScanRanges(_, _, _, _, _)
\* the inner loop of _create_buckets over zip(ranges, labels), from pair i on:
\* the first range that contains the value is incremented, then break
ScanRanges(bucket_counts, value, rs, ls, i) ==
    IF i > Len(rs) \/ i > Len(ls) THEN bucket_counts
    ELSE IF rs[i][1] <= value /\ value <= rs[i][2]
         THEN Increment(bucket_counts, ls[i])
         ELSE ScanRanges(bucket_counts, value, rs, ls, i + 1)

RECURSIVE CountValuesSkipZero(_, _, _, _)
\* CountValues classifying only the values that are truthy: a 0 is skipped
CountValuesSkipZero(bucket_counts, vs, rs, ls) ==
    IF vs = <<>> THEN bucket_counts
    ELSE IF Head(vs) = 0 THEN CountValuesSkipZero(bucket_counts, Tail(vs), rs, ls)
    ELSE CountValuesSkipZero(ScanRanges(bucket_counts, Head(vs), rs, ls, 1), Tail(vs), rs, ls)

RECURSIVE CountValues(_, _, _, _)
\* the outer loop of _create_buckets: for value in values
CountValues(bucket_counts, vs, rs, ls) ==
    IF vs = <<>> THEN bucket_counts
    ELSE CountValues(ScanRanges(bucket_counts, Head(vs), rs, ls, 1), Tail(vs), rs, ls)

\* bucket_total leaving the zero counts out of the denominator
bucket_total_nonzero(vs) == CountPositive(vs)

\* total = len(values)
bucket_total(vs) == Len(vs)

\* bucket_percentage cut to whole percents
bucket_percentage_whole(count, total) ==
    IF total > 0 THEN ((count * 100) \div total) * 100 ELSE 0

\* round(count * 100.0 / total, 2) if total > 0 else 0, in hundredths of a percent
bucket_percentage(count, total) ==
    IF total > 0 THEN Round2(count * 100, total) ELSE 0

\* bucket_entries emitting only the labels that have members
bucket_entries_nonempty(bucket_counts, ls, total) ==
    LET used == SelectSeq(ls, LAMBDA l : bucket_counts[l] > 0)
    IN  [i \in 1..Len(used) |->
            [range      |-> used[i],
             count      |-> bucket_counts[used[i]],
             percentage |-> bucket_percentage(bucket_counts[used[i]], total)]]

\* the list comprehension of _create_buckets: one entry per label, in label order
bucket_entries(bucket_counts, ls, total) ==
    [i \in 1..Len(ls) |->
        [range      |-> ls[i],
         count      |-> bucket_counts[ls[i]],
         percentage |-> bucket_percentage(bucket_counts[ls[i]], total)]]

\* _create_buckets(values, ranges, labels)
create_buckets(vs, rs, ls) ==
    bucket_entries(CountValues([l \in Range(ls) |-> 0], vs, rs, ls), ls, bucket_total(vs))

\* PersonRanges with the last range starting at the 500 of its label '500+':
\* the count 500 is in two ranges
PersonRangesFrom500 ==
    << <<0, 0>>, <<1, 5>>, <<6, 10>>, <<11, 20>>, <<21, 50>>, <<51, 100>>,
       <<101, 500>>, <<500, Inf>> >>

\* the tables analyze_account_person_counts passes
PersonRanges ==
    << <<0, 0>>, <<1, 5>>, <<6, 10>>, <<11, 20>>, <<21, 50>>, <<51, 100>>,
       <<101, 500>>, <<501, Inf>> >>
PersonLabels == <<"0", "1-5", "6-10", "11-20", "21-50", "51-100", "101-500", "500+">>

\* the tables analyze_account_activity_counts passes
AccountActivityRanges ==
    << <<0, 0>>, <<1, 10>>, <<11, 50>>, <<51, 100>>, <<101, 500>>, <<501, 1000>>,
       <<1001, 5000>>, <<5001, Inf>> >>
AccountActivityLabels ==
    <<"0", "1-10", "11-50", "51-100", "101-500", "501-1000", "1001-5000", "5000+">>

\* the tables analyze_person_activity_counts passes
PersonActivityRanges ==
    << <<0, 0>>, <<1, 10>>, <<11, 50>>, <<51, 100>>, <<101, 500>>, <<501, 1000>>,
       <<1001, Inf>> >>
PersonActivityLabels ==
    <<"0", "1-10", "11-50", "51-100", "101-500", "501-1000", "1000+">>

\* ---------------------------------------------------------- count lists

\* a correction multiplying by the rate instead of its inverse
corrected_count_by_rate(raw_count, rate) == IntOf(raw_count * rate)

\* the sampled SQL column COUNT(*) * {1.0/self.activity_sample_rate}, read
\* back with int(row['activity_count'])
corrected_count(raw_count, rate) == IntOf(raw_count * InverseRate(rate))

\* sampled_count_map keeping the raw COUNT(*) per key, the correction being
\* left for the total
sampled_count_map_raw(rows, rate) == rows

\* {row['account_id']: int(row['activity_count']) for row in result}
sampled_count_map(rows, rate) ==
    [k \in DOMAIN rows |-> corrected_count(rows[k], rate)]

\* fill_counts taking the length of the result set: owners without a row
\* are left out instead of counted as 0
fill_counts_rows_only(owner_keys, count_map) ==
    LET present == SelectSeq(owner_keys, LAMBDA k : k \in DOMAIN count_map)
    IN  [i \in 1..Len(present) |-> count_map[present[i]]]

\* fill_counts appending in the wrong order: the last owner first
fill_counts_reversed(owner_keys, count_map) ==
    [i \in 1..Len(owner_keys) |->
        LET k == owner_keys[Len(owner_keys) + 1 - i]
        IN  IF k \in DOMAIN count_map THEN count_map[k] ELSE 0]

\* for aid in account_ids: count = count_map.get(aid, 0); counts.append(count)
fill_counts(owner_keys, count_map) ==
    [i \in 1..Len(owner_keys) |->
        IF owner_keys[i] \in DOMAIN count_map THEN count_map[owner_keys[i]] ELSE 0]

\* ------------------------------------------------------------------ state

VARIABLES
    config,       \* the analyzer's configuration, fixed by __init__
    call,         \* the method that ran last ("__init__" after construction)
    account_ids,  \* the account_ids argument of that call
    owners,       \* the owner keys it counted for (account_ids or person_ids)
    raw,          \* the grouped rows of its count query: key -> COUNT(*)
    counts,       \* its count list (person_counts, activity_counts, list_counts)
    stats,        \* the document it returned
    raised,       \* the exception it raised, "none" if it returned
    bcall,        \* whether _create_buckets ran in that call
    values,       \* the arguments of that _create_buckets call ...
    ranges,
    labels,
    buckets,      \* ... and the list it returned
    pc,           \* the statement of run() to execute next
    connection,   \* self.connection: "none", "open" or "closed"
    results,      \* self.results['aggregated_stats'], in insertion order
    failures,     \* the names whose analysis had a query fail in execute_query
    saved,        \* the aggregated_stats save_results wrote, if it wrote
    profiler,     \* the fields of a ProductionDataProfiler, <<>> if none is built
    args,         \* what the last call outside run() was given and found
    queries,      \* the queries that call sent, in order
    routine,      \* the statistics routine analyze_column chose
    tables        \* the profiler's results['tables'], in insertion order

\* the state of run(), which the analysis methods do not touch
runvars == <<pc, connection, results, failures, saved>>

\* the state of the calls explored outside run() and of the profiler
profvars == <<profiler, args, queries, routine, tables>>

vars == <<config, call, account_ids, owners, raw, counts, stats, raised,
          bcall, values, ranges, labels, buckets, pc, connection, results,
          failures, saved, profiler, args, queries, routine, tables>>

\* the document {} and the empty result set []
EmptyDoc == [k \in {} |-> 0]
NoRows == [k \in {} |-> 0]

\* owner key lists: the ids of ACCOUNT_IDS or of the sampling query
OwnerLists == SeqsUpTo(Keys, MaxLen)

\* person_norm.id lists: the ids of a table are distinct
PersonLists == {s \in OwnerLists : \A i, j \in 1..Len(s) : i # j => s[i] # s[j]}

\* execute_query of a GROUP BY count restricted to WHERE key IN (ids): at most
\* one row per listed key, each with COUNT(*) >= 1; [] when the query fails
\* (as it does for an empty IN () list) or matches nothing
GroupedRowsOf(ids, row_counts) == UNION {[S -> row_counts] : S \in SUBSET Range(ids)}
GroupedRows(ids) == GroupedRowsOf(ids, RawCounts)

\* the same with AND RAND() < rate: no row passes a rate <= 0
SampledRows(ids, rate) == IF rate <= 0 THEN {NoRows} ELSE GroupedRows(ids)

\* SELECT id FROM person_norm WHERE account_id IN (ids)
PersonRows(ids) == IF ids = <<>> THEN {<<>>} ELSE PersonLists

\* what a call leaves behind when it made no _create_buckets call
NoBuckets ==
    /\ bcall' = FALSE
    /\ values' = <<>>
    /\ ranges' = <<>>
    /\ labels' = <<>>
    /\ buckets' = <<>>

\* buckets = self._create_buckets(vs, rs, ls)
CallCreateBuckets(vs, rs, ls) ==
    /\ bcall' = TRUE
    /\ values' = vs
    /\ ranges' = rs
    /\ labels' = ls
    /\ buckets' = create_buckets(vs, rs, ls)

\* SampleAccountAnalyzer.__init__: every rate and window is accepted as given
InitAnalyzer ==
    /\ config \in [activity_sample_rate : SampleRates,
                   activity_time_range_days : TimeRanges]
    /\ call = "__init__"
    /\ account_ids = <<>>
    /\ owners = <<>>
    /\ raw = NoRows
    /\ counts = <<>>
    /\ stats = EmptyDoc
    /\ raised = "none"
    /\ bcall = FALSE
    /\ values = <<>>
    /\ ranges = <<>>
    /\ labels = <<>>
    /\ buckets = <<>>
    /\ pc = "start"
    /\ connection = "none"
    /\ results = <<>>
    /\ failures = {}
    /\ saved = <<>>

\* no call outside run() was made yet, and no table was profiled
IdleCalls ==
    /\ args = EmptyDoc
    /\ queries = <<>>
    /\ routine = "none"
    /\ tables = <<>>

\* a constructed SampleAccountAnalyzer, and no profiler
Init ==
    /\ InitAnalyzer
    /\ profiler = <<>>
    /\ IdleCalls

\* ---------------------------------------------------------------- actions
\* Each analysis method is explored as run() invokes it: once, on a
\* constructed analyzer.  The methods read self.config and their argument
\* only and write nothing of self, so a call does not depend on the calls
\* before it.

\* the analyzer is constructed and no method has been called on it yet
Fresh == call = "__init__"

\* analyze_account_person_counts(ids) when its count query returns rows
AccountPersonCall(ids, rows) ==
    LET person_counts == fill_counts(ids, rows)
    IN  /\ call' = "analyze_account_person_counts"
        /\ account_ids' = ids
        /\ owners' = ids
        /\ raw' = rows
        /\ counts' = person_counts
        /\ CallCreateBuckets(person_counts, PersonRanges, PersonLabels)
        /\ stats' = relationship_stats(person_counts)
                        @@ [buckets |-> create_buckets(person_counts, PersonRanges, PersonLabels)]
        /\ raised' = "none"
        /\ UNCHANGED config

analyze_account_person_counts ==
    \E ids \in OwnerLists : \E rows \in GroupedRows(ids) :
        /\ Fresh
        /\ AccountPersonCall(ids, rows)
        /\ UNCHANGED <<runvars, profvars>>

\* what a call leaves behind when it raised or returned {} before counting
NoCounts ==
    /\ raw' = NoRows
    /\ counts' = <<>>
    /\ stats' = EmptyDoc
    /\ NoBuckets

\* AccountActivityCall projecting the counts of the window onto a window of
\* 90 days: a count seen in time_range_days days is scaled by 90/time_range_days
AccountActivityCallWindowed(ids, rows) ==
    /\ call' = "analyze_account_activity_counts"
    /\ account_ids' = ids
    /\ owners' = ids
    /\ UNCHANGED config
    /\ IF config.activity_sample_rate = 0
       THEN /\ raised' = "ZeroDivisionError"
            /\ NoCounts
       ELSE LET scaled == [k \in DOMAIN rows |->
                              (rows[k] * 90) \div config.activity_time_range_days]
                activity_counts ==
                    fill_counts(ids, sampled_count_map(scaled, config.activity_sample_rate))
            IN  /\ raised' = "none"
                /\ raw' = rows
                /\ counts' = activity_counts
                /\ CallCreateBuckets(activity_counts, AccountActivityRanges, AccountActivityLabels)
                /\ stats' = relationship_stats(activity_counts)
                                @@ [time_range_days |-> config.activity_time_range_days,
                                    buckets |-> create_buckets(activity_counts,
                                                    AccountActivityRanges, AccountActivityLabels)]

\* analyze_account_activity_counts(ids) when its count query returns rows
AccountActivityCall(ids, rows) ==
    /\ call' = "analyze_account_activity_counts"
    /\ account_ids' = ids
    /\ owners' = ids
    /\ UNCHANGED config
    /\ IF config.activity_sample_rate = 0
       THEN \* 1.0/self.activity_sample_rate while the query text is built
            /\ raised' = "ZeroDivisionError"
            /\ NoCounts
       ELSE LET activity_counts ==
                    fill_counts(ids, sampled_count_map(rows, config.activity_sample_rate))
            IN  /\ raised' = "none"
                /\ raw' = rows
                /\ counts' = activity_counts
                /\ CallCreateBuckets(activity_counts, AccountActivityRanges, AccountActivityLabels)
                /\ stats' = relationship_stats(activity_counts)
                                @@ [time_range_days |-> config.activity_time_range_days,
                                    buckets |-> create_buckets(activity_counts,
                                                    AccountActivityRanges, AccountActivityLabels)]

analyze_account_activity_counts ==
    \E ids \in OwnerLists : \E rows \in SampledRows(ids, config.activity_sample_rate) :
        /\ Fresh
        /\ AccountActivityCall(ids, rows)
        /\ UNCHANGED <<runvars, profvars>>

\* analyze_person_activity_counts(ids) when its person query returns
\* person_ids and its count query returns rows
PersonActivityCall(ids, person_ids, rows) ==
    /\ call' = "analyze_person_activity_counts"
    /\ account_ids' = ids
    /\ owners' = person_ids
    /\ UNCHANGED config
    /\ IF person_ids = <<>>
       THEN \* if not person_ids: return {}
            /\ raised' = "none"
            /\ NoCounts
       ELSE IF config.activity_sample_rate = 0
       THEN /\ raised' = "ZeroDivisionError"
            /\ NoCounts
       ELSE LET activity_counts ==
                    fill_counts(person_ids, sampled_count_map(rows, config.activity_sample_rate))
            IN  /\ raised' = "none"
                /\ raw' = rows
                /\ counts' = activity_counts
                /\ CallCreateBuckets(activity_counts, PersonActivityRanges, PersonActivityLabels)
                /\ stats' = relationship_stats(activity_counts)
                                @@ [time_range_days |-> config.activity_time_range_days,
                                    buckets |-> create_buckets(activity_counts,
                                                    PersonActivityRanges, PersonActivityLabels)]

analyze_person_activity_counts ==
    \E ids \in OwnerLists : \E person_ids \in PersonRows(ids) :
        \E rows \in SampledRows(person_ids, config.activity_sample_rate) :
            /\ Fresh
            /\ PersonActivityCall(ids, person_ids, rows)
            /\ UNCHANGED <<runvars, profvars>>

\* analyze_list_membership(ids) when its count query returns rows
ListMembershipCall(ids, rows) ==
    LET list_counts == fill_counts(ids, rows)
    IN  /\ call' = "analyze_list_membership"
        /\ account_ids' = ids
        /\ owners' = ids
        /\ raw' = rows
        /\ counts' = list_counts
        /\ NoBuckets
        /\ stats' = relationship_stats(list_counts)
        /\ raised' = "none"
        /\ UNCHANGED config

analyze_list_membership ==
    \E ids \in OwnerLists : \E rows \in GroupedRows(ids) :
        /\ Fresh
        /\ ListMembershipCall(ids, rows)
        /\ UNCHANGED <<runvars, profvars>>

Next ==
    \/ analyze_account_person_counts
    \/ analyze_account_activity_counts
    \/ analyze_person_activity_counts
    \/ analyze_list_membership

Spec == Init /\ [][Next]_vars

\* ------------------------------------------------ _create_buckets on its own
\* _create_buckets as a function of its arguments: the tables the analyzers
\* pass and others, over lists of counts that reach every range.

\* counts to classify
BucketValues == {0, 3, 7, 10, 50, 700}

\* (ranges, labels) tables: the three of the analyzers, two exhaustive
\* ones, one with overlapping ranges, one that leaves counts uncovered
BucketSpecs ==
    { <<PersonRanges, PersonLabels>>,
      <<AccountActivityRanges, AccountActivityLabels>>,
      <<PersonActivityRanges, PersonActivityLabels>>,
      << << <<0, 0>>, <<1, 5>>, <<6, Inf>> >>, <<"0", "1-5", "6+">> >>,
      << << <<0, 0>>, <<1, 5>>, <<6, 10>>, <<11, Inf>> >>, <<"0", "1-5", "6-10", "11+">> >>,
      << << <<0, 5>>, <<3, 10>>, <<0, Inf>> >>, <<"0-5", "3-10", "any">> >>,
      << << <<0, 0>>, <<1, 5>>, <<10, 50>> >>, <<"0", "1-5", "10-50">> >> }

\* lists of counts to classify: every short list over BucketValues, and one
\* list with a count in each range of the four-label table
BucketValueLists == SeqsUpTo(BucketValues, MaxLen) \cup {<<0, 3, 10, 50>>}

InitBuckets ==
    /\ Init
    /\ config.activity_sample_rate = 1
    /\ config.activity_time_range_days = 90

create_buckets_call ==
    \E vs \in BucketValueLists : \E table \in BucketSpecs :
        /\ Fresh
        /\ call' = "_create_buckets"
        /\ CallCreateBuckets(vs, table[1], table[2])
        /\ UNCHANGED <<config, account_ids, owners, raw, counts, stats, raised>>
        /\ UNCHANGED <<runvars, profvars>>

NextBuckets == create_buckets_call

SpecBuckets == InitBuckets /\ [][NextBuckets]_vars

\* --------------------------------------- an analysis and its distribution
\* The unsampled account-person analysis over four accounts, followed by
\* _create_buckets over the count list it built, with any of the tables of
\* BucketSpecs as the bucket table.

\* four accounts, in any order
FourOwnerLists ==
    {s \in [1..4 -> 1..4] : \A i, j \in 1..4 : i # j => s[i] # s[j]}

\* grouped person rows for some of the accounts, with 2 or 9 persons each
FourOwnerRows(ids) == UNION {[S -> {2, 9}] : S \in SUBSET Range(ids)}

InitEndToEnd ==
    /\ Init
    /\ config.activity_sample_rate = 100
    /\ config.activity_time_range_days = 90

person_counts_of_four ==
    \E ids \in FourOwnerLists : \E rows \in FourOwnerRows(ids) :
        /\ Fresh
        /\ AccountPersonCall(ids, rows)
        /\ UNCHANGED <<runvars, profvars>>

\* self._create_buckets(person_counts, ranges, labels) on the count list of
\* the analysis, the table being an argument
bucket_person_counts ==
    \E table \in BucketSpecs :
        /\ call = "analyze_account_person_counts"
        /\ call' = "_create_buckets"
        /\ CallCreateBuckets(counts, table[1], table[2])
        /\ UNCHANGED <<config, account_ids, owners, raw, counts, stats, raised>>
        /\ UNCHANGED <<runvars, profvars>>

NextEndToEnd ==
    \/ person_counts_of_four
    \/ bucket_person_counts

SpecEndToEnd == InitEndToEnd /\ [][NextEndToEnd]_vars

\* ------------------------------------------------------------------- run()
\* SampleAccountAnalyzer.run, one action per statement of its try block, over
\* one account at most, so that the documents collected in results stay few.

\* the account ids get_sample_account_ids returns
RunOwnerLists == {<<>>, <<1>>}
\* COUNT(*) of a grouped row
RunRawCounts == {2}
\* the ids of the person query of analyze_person_activity_counts
RunPersonLists == {<<>>, <<1>>}
\* the COUNT(*) column of the rows of analyze_activity_types, ORDER BY count DESC
RunTypeRows == {<<>>, <<2>>, <<2, 1>>}

\* execute_query on a GROUP BY count over WHERE key IN (ids), as pairs
\* <<failed, rows>>: the query raises inside execute_query, which prints and
\* returns [], or it returns rows.  An empty IN () is a syntax error, so the
\* query over no ids always fails.
QueryOutcomes(ids) ==
    {<<TRUE, NoRows>>} \cup
    (IF ids = <<>> THEN {}
     ELSE {<<FALSE, rows>> : rows \in GroupedRowsOf(ids, RunRawCounts)})

\* the same for the sampled count queries: with rate 0 the call raises before
\* any query is sent, with a rate < 0 no row passes RAND() < rate
SampledQueryOutcomes(ids, rate) ==
    IF rate = 0 THEN {<<FALSE, NoRows>>}
    ELSE {<<TRUE, NoRows>>} \cup
         (IF ids = <<>> THEN {}
          ELSE IF rate < 0 THEN {<<FALSE, NoRows>>}
          ELSE {<<FALSE, rows>> : rows \in GroupedRowsOf(ids, RunRawCounts)})

\* SELECT id FROM person_norm WHERE account_id IN (ids), as <<failed, person_ids>>
PersonQueryOutcomes(ids) ==
    {<<TRUE, <<>> >>} \cup
    (IF ids = <<>> THEN {} ELSE {<<FALSE, p>> : p \in RunPersonLists})

\* the query of analyze_activity_types, as <<failed, rows>>
TypeQueryOutcomes(ids, rate) ==
    {<<TRUE, <<>> >>} \cup
    (IF ids = <<>> THEN {}
     ELSE IF rate <= 0 THEN {<<FALSE, <<>> >>}
     ELSE {<<FALSE, rows>> : rows \in RunTypeRows})

\* 'type_' + str(i)
TypeCategories == <<"type_0", "type_1">>

\* the document analyze_activity_types builds from the count column of its rows
activity_types_doc(rows) ==
    LET total_count == SumSeq(rows)
    IN  [activity_type_distribution |->
            [i \in 1..Len(rows) |->
                [type_category |-> TypeCategories[i],
                 count         |-> rows[i],
                 percentage    |-> IF total_count > 0
                                   THEN Round2(rows[i] * 100, total_count) ELSE 0]],
         total_types |-> Len(rows)]

\* analyze_activity_types(ids) when its query returns rows
ActivityTypesCall(ids, rows) ==
    /\ call' = "analyze_activity_types"
    /\ account_ids' = ids
    /\ owners' = ids
    /\ raised' = "none"
    /\ raw' = NoRows
    /\ counts' = rows
    /\ NoBuckets
    /\ stats' = activity_types_doc(rows)
    /\ UNCHANGED config

\* name in d, for the dict d kept as a list of entries in insertion order
HasKey(d, name) == \E i \in 1..Len(d) : d[i].name = name

\* d[name]
dict_get(d, name) == (CHOOSE e \in Range(d) : e.name = name).doc

\* dict_set putting a new key in front of the keys the dict already holds
dict_set_front(d, name, doc) ==
    IF HasKey(d, name)
    THEN [i \in 1..Len(d) |-> IF d[i].name = name THEN [name |-> name, doc |-> doc] ELSE d[i]]
    ELSE <<[name |-> name, doc |-> doc]>> \o d

\* d[name] = doc: a new key is appended, an existing key keeps its place and
\* gets the new value
dict_set(d, name, doc) ==
    IF HasKey(d, name)
    THEN [i \in 1..Len(d) |-> IF d[i].name = name THEN [name |-> name, doc |-> doc] ELSE d[i]]
    ELSE Append(d, [name |-> name, doc |-> doc])

\* the key of step 3 mistaken for the key of step 2
account_activity_key_reused == "account_person"

\* the keys run() stores the documents under
AccountPersonKey == "account_person"
AccountActivityKey == "account_activity"
PersonActivityKey == "person_activity"
AccountListKey == "account_list"
ActivityTypesKey == "activity_types"

\* the keys in the order of the steps
StepKeys ==
    <<AccountPersonKey, AccountActivityKey, PersonActivityKey, AccountListKey,
      ActivityTypesKey>>

\* what a statement of run leaves of the state of the last analysis call
KeepAnalysis ==
    /\ UNCHANGED <<config, account_ids, owners, raw, counts, stats,
                   bcall, values, ranges, labels, buckets>>
    /\ UNCHANGED profvars

\* self.results['aggregated_stats'][name] = stats, unless the call raised:
\* then control leaves the try block for the except clause
StoreOrRaise(name, failed, next_pc) ==
    /\ IF raised' # "none"
       THEN /\ results' = results
            /\ failures' = failures
            /\ pc' = "except"
       ELSE /\ results' = dict_set(results, name, stats')
            /\ failures' = IF failed THEN failures \cup {name} ELSE failures
            /\ pc' = next_pc
    /\ UNCHANGED profvars

\* self.connect(): pymysql.connect returns a connection or raises
run_connect ==
    /\ pc = "start"
    /\ call' = "connect"
    /\ \/ /\ connection' = "open"
          /\ raised' = "none"
          /\ pc' = "get_ids"
       \/ /\ connection' = connection
          /\ raised' = "OperationalError"
          /\ pc' = "except"
    /\ KeepAnalysis
    /\ UNCHANGED <<results, failures, saved>>

\* step 1: account_ids = self.get_sample_account_ids()
run_get_sample_account_ids ==
    \E ids \in RunOwnerLists :
        /\ pc = "get_ids"
        /\ call' = "get_sample_account_ids"
        /\ account_ids' = ids
        /\ pc' = "step2"
        /\ UNCHANGED <<config, owners, raw, counts, stats, raised,
                       bcall, values, ranges, labels, buckets>>
        /\ UNCHANGED <<connection, results, failures, saved>>
        /\ UNCHANGED profvars

\* step 2: account-person
run_account_person ==
    \E out \in QueryOutcomes(account_ids) :
        /\ pc = "step2"
        /\ AccountPersonCall(account_ids, out[2])
        /\ StoreOrRaise(AccountPersonKey, out[1], "step3")
        /\ UNCHANGED <<connection, saved>>

\* step 3: account-activity
run_account_activity ==
    \E out \in SampledQueryOutcomes(account_ids, config.activity_sample_rate) :
        /\ pc = "step3"
        /\ AccountActivityCall(account_ids, out[2])
        /\ StoreOrRaise(AccountActivityKey, out[1], "step4")
        /\ UNCHANGED <<connection, saved>>

\* step 4: person-activity
run_person_activity ==
    \E pout \in PersonQueryOutcomes(account_ids) :
        \E out \in (IF pout[2] = <<>> THEN {<<FALSE, NoRows>>}
                    ELSE SampledQueryOutcomes(pout[2], config.activity_sample_rate)) :
            /\ pc = "step4"
            /\ PersonActivityCall(account_ids, pout[2], out[2])
            /\ StoreOrRaise(PersonActivityKey, pout[1] \/ out[1], "step5")
            /\ UNCHANGED <<connection, saved>>

\* step 5: list membership
run_list_membership ==
    \E out \in QueryOutcomes(account_ids) :
        /\ pc = "step5"
        /\ ListMembershipCall(account_ids, out[2])
        /\ StoreOrRaise(AccountListKey, out[1], "step6")
        /\ UNCHANGED <<connection, saved>>

\* step 6: activity types
run_activity_types ==
    \E out \in TypeQueryOutcomes(account_ids, config.activity_sample_rate) :
        /\ pc = "step6"
        /\ ActivityTypesCall(account_ids, out[2])
        /\ StoreOrRaise(ActivityTypesKey, out[1], "save")
        /\ UNCHANGED <<connection, saved>>

\* self.save_results(output_file): the file is written, or open() raises
run_save_results ==
    /\ pc = "save"
    /\ call' = "save_results"
    /\ \/ /\ saved' = <<results>>
          /\ raised' = "none"
          /\ pc' = "summary"
       \/ /\ saved' = saved
          /\ raised' = "OSError"
          /\ pc' = "except"
    /\ KeepAnalysis
    /\ UNCHANGED <<connection, results, failures>>

\* self.print_summary(): stats['person_activity']['sample_persons'] is read
\* whenever the key person_activity is present
run_print_summary ==
    /\ pc = "summary"
    /\ call' = "print_summary"
    /\ IF HasKey(results, PersonActivityKey) /\ dict_get(results, PersonActivityKey) = EmptyDoc
       THEN /\ raised' = "KeyError"
            /\ pc' = "except"
       ELSE /\ raised' = "none"
            /\ pc' = "finally"
    /\ KeepAnalysis
    /\ UNCHANGED <<connection, results, failures, saved>>

\* except Exception as e: print(...); raise
run_except ==
    /\ pc = "except"
    /\ pc' = "finally"
    /\ KeepAnalysis
    /\ UNCHANGED <<call, raised, connection, results, failures, saved>>

\* a finally clause that leaves the connection as it is
run_finally_without_close ==
    /\ pc = "finally"
    /\ connection' = connection
    /\ pc' = IF raised = "none" THEN "returned" ELSE "raised"
    /\ KeepAnalysis
    /\ UNCHANGED <<call, raised, results, failures, saved>>

\* finally: self.close(); then run returns, or the exception leaves it
run_finally ==
    /\ pc = "finally"
    /\ connection' = IF connection = "open" THEN "closed" ELSE connection
    /\ pc' = IF raised = "none" THEN "returned" ELSE "raised"
    /\ KeepAnalysis
    /\ UNCHANGED <<call, raised, results, failures, saved>>

NextRun ==
    \/ run_connect
    \/ run_get_sample_account_ids
    \/ run_account_person
    \/ run_account_activity
    \/ run_person_activity
    \/ run_list_membership
    \/ run_activity_types
    \/ run_save_results
    \/ run_print_summary
    \/ run_except
    \/ run_finally

SpecRun == Init /\ [][NextRun]_vars

\* run() is sequential code: a statement that can execute does
SpecRunFair == SpecRun /\ WF_vars(NextRun)


\* ------------------------------------------------- ProductionDataProfiler
\* The profiler's column and table analysis.  A statistics document is
\* modelled by its counting fields (total_count, non_null_count, null_count,
\* null_percentage) and optimization_applied; the fields that pass a column
\* of the query row through (unique_count, min, max, lengths, the value
\* distribution) are left out.  A query is the list of its clauses.

\* the most rows a statistics query sees
MaxRows == 2

\* int(os.getenv('MAX_COLUMNS_TO_ANALYZE', '50')): any integer is accepted
MaxColumnsValues == {-1, 0, 1, 2, 50}

\* the tables profiled: one without and one with a large-table configuration
ProfiledTables == {"account_base", "activity"}

\* self.large_table_configs as __init__ builds it
DefaultLargeTableConfigs ==
    [activity |-> [sample_rate |-> 1, time_range_days |-> 90,
                   time_column |-> "activity_date"]]

\* the same after the caller added key_columns to the activity configuration
KeyedLargeTableConfigs ==
    [activity |-> [sample_rate |-> 1, time_range_days |-> 90,
                   time_column |-> "activity_date",
                   key_columns |-> {"c1", "c3"}]]

\* ProductionDataProfiler.__init__
ProfilerConfigs ==
    [max_columns_to_analyze : MaxColumnsValues,
     large_table_configs : {DefaultLargeTableConfigs, KeyedLargeTableConfigs}]

\* a constructed profiler, on which no method was called yet
InitProfiler ==
    /\ InitAnalyzer
    /\ config.activity_sample_rate = 1
    /\ config.activity_time_range_days = 90
    /\ profiler \in ProfilerConfigs
    /\ IdleCalls

\* the DATA_TYPE spellings of the columns profiled
DataTypes ==
    {"int", "INT", "bigint", "tinyint", "smallint", "mediumint", "decimal",
     "float", "double", "Double", "varchar", "VARCHAR", "char", "text",
     "tinytext", "mediumtext", "longtext", "LONGTEXT", "datetime", "DateTime",
     "date", "timestamp", "time", "year", "json", "JSON", "boolean", "BOOLEAN",
     "blob", "enum", "bit", "varbinary"}

\* str.lower() over those spellings
Lower(data_type) ==
    CASE data_type = "INT" -> "int"
      [] data_type = "Double" -> "double"
      [] data_type = "VARCHAR" -> "varchar"
      [] data_type = "LONGTEXT" -> "longtext"
      [] data_type = "DateTime" -> "datetime"
      [] data_type = "JSON" -> "json"
      [] data_type = "BOOLEAN" -> "boolean"
      [] OTHER -> data_type

\* the lists analyze_column tests the lower-cased type against
NumericTypes ==
    {"int", "bigint", "tinyint", "smallint", "mediumint", "decimal", "float", "double"}
StringTypes == {"varchar", "char", "text", "mediumtext", "longtext"}
DatetimeTypes == {"datetime", "date", "timestamp"}

\* the dispatch of analyze_column on the type as spelled
column_routine_case_sensitive(data_type) ==
    LET t == data_type
    IN  IF t \in NumericTypes THEN "analyze_numeric_column"
        ELSE IF t \in StringTypes THEN "analyze_string_column"
        ELSE IF t \in DatetimeTypes THEN "analyze_datetime_column"
        ELSE IF t = "json" THEN "analyze_json_column"
        ELSE IF t = "boolean" THEN "analyze_string_column"
        ELSE "basic"

\* the routine analyze_column hands the column to; "basic" is its own
\* total/non-null count query
column_routine(data_type) ==
    LET t == Lower(data_type)
    IN  IF t \in NumericTypes THEN "analyze_numeric_column"
        ELSE IF t \in StringTypes THEN "analyze_string_column"
        ELSE IF t \in DatetimeTypes THEN "analyze_datetime_column"
        ELSE IF t = "json" THEN "analyze_json_column"
        ELSE IF t = "boolean" THEN "analyze_string_column"
        ELSE "basic"

\* ' AND '.join(conditions)
RECURSIVE join_and(_)
join_and(conditions) ==
    IF Len(conditions) <= 1 THEN conditions
    ELSE <<Head(conditions), "AND">> \o join_and(Tail(conditions))

\* self.large_table_configs[table_name] if the table has one, else None,
\* which like {} is false
optimization_config_of(p, table_name) ==
    IF table_name \in DOMAIN p.large_table_configs
    THEN p.large_table_configs[table_name] ELSE EmptyDoc

\* _build_where_clause: "" without a configuration, else the conditions
\* behind the keyword WHERE
build_where_clause(optimization_config) ==
    IF optimization_config = EmptyDoc THEN <<>>
    ELSE LET time_filter ==
                 IF /\ "time_column" \in DOMAIN optimization_config
                    /\ "time_range_days" \in DOMAIN optimization_config
                 THEN <<"time_column >= DATE_SUB(NOW(), INTERVAL days DAY)">>
                 ELSE <<>>
             sampling_filter ==
                 IF "sample_rate" \in DOMAIN optimization_config
                 THEN <<"RAND() < sample_rate">> ELSE <<>>
             conditions == time_filter \o sampling_filter
         IN  IF conditions # <<>> THEN <<"WHERE">> \o join_and(conditions) ELSE <<>>

\* the query of get_table_row_count: the keyword WHERE and then where_clause
row_count_query(table_name, where_clause) ==
    <<"SELECT COUNT(*) as count FROM", table_name>>
        \o (IF where_clause # <<>> THEN <<"WHERE">> \o where_clause ELSE <<>>)

\* the statistics query of a routine: where_clause as it is
statistics_query(table_name, where_clause) ==
    <<"SELECT COUNT(*) as total_count, COUNT(column) as non_null_count FROM",
      table_name>> \o where_clause

\* the server rejects a query in which WHERE follows WHERE
ValidSyntax(query) ==
    \A i \in 1..(Len(query) - 1) : ~(query[i] = "WHERE" /\ query[i + 1] = "WHERE")

\* the filter draws a new random sample each time it is evaluated
Sampling(where_clause) ==
    \E i \in 1..Len(where_clause) : where_clause[i] = "RAND() < sample_rate"

\* what get_table_row_count can return when the statistics query saw
\* total_count rows: 0 when execute_query swallowed an error, as it does for
\* a query the server rejects; else the rows the filter lets through
get_table_row_count(table_name, where_clause, total_count) ==
    IF ~ValidSyntax(row_count_query(table_name, where_clause)) THEN {0}
    ELSE IF Sampling(where_clause) THEN 0..MaxRows
    ELSE {0, total_count}

\* the row execute_query returns for a statistics query, COUNT(column) never
\* above COUNT(*), or its failure
StatisticsRows ==
    {[failed |-> TRUE, total_count |-> 0, non_null_count |-> 0]} \cup
    {[failed |-> FALSE, total_count |-> t, non_null_count |-> n] :
        t \in 0..MaxRows, n \in 0..MaxRows}

StatisticsOutcomes == {row \in StatisticsRows : row.non_null_count <= row.total_count}

\* round(x * 100.0 / total, 2) if total > 0 else 0
null_percentage(null_count, total) ==
    IF total > 0 /\ null_count >= 0 THEN Round2(null_count * 100, total) ELSE 0

\* stats['optimization_applied'], added when a configuration was given
optimization_applied(optimization_config) ==
    IF optimization_config = EmptyDoc THEN EmptyDoc
    ELSE [optimization_applied |->
             [sample_rate |-> optimization_config.sample_rate,
              time_range_days |-> optimization_config.time_range_days]]

\* analyze_numeric_column, analyze_datetime_column, analyze_json_column: both
\* counts come from the one row of the statistics query
analyze_counted_column(optimization_config, row) ==
    IF row.failed THEN EmptyDoc
    ELSE [total_count |-> row.total_count,
          non_null_count |-> row.non_null_count,
          null_count |-> row.total_count - row.non_null_count,
          null_percentage |->
              null_percentage(row.total_count - row.non_null_count, row.total_count)]
         @@ optimization_applied(optimization_config)

\* analyze_string_column: non_null_count from the row of its query, the
\* total from a second query, get_table_row_count(table_name, where_clause)
analyze_string_column(optimization_config, row, total_rows) ==
    IF row.failed THEN EmptyDoc
    ELSE [total_count |-> total_rows,
          non_null_count |-> row.non_null_count,
          null_count |-> total_rows - row.non_null_count,
          null_percentage |->
              null_percentage(total_rows - row.non_null_count, total_rows)]
         @@ optimization_applied(optimization_config)

\* the last branch of analyze_column: without a where clause the query
\* counts the rows WHERE column IS NOT NULL, so total and non-null agree
analyze_basic(optimization_config, row) ==
    IF row.failed THEN EmptyDoc
    ELSE LET total_count ==
                 IF build_where_clause(optimization_config) # <<>>
                 THEN row.total_count ELSE row.non_null_count
         IN  [total_count |-> total_count,
              non_null_count |-> row.non_null_count,
              null_count |-> total_count - row.non_null_count,
              null_percentage |->
                  null_percentage(total_count - row.non_null_count, total_count)]

\* the queries a routine sends for its counts (the value-distribution query
\* of the string and datetime routines is left out with the field it fills)
column_queries(table_name, name, optimization_config, row) ==
    LET where_clause == build_where_clause(optimization_config)
        first == IF name = "basic" /\ where_clause = <<>>
                 THEN statistics_query(table_name, <<"WHERE", "column IS NOT NULL">>)
                 ELSE statistics_query(table_name, where_clause)
    IN  IF name = "analyze_string_column" /\ ~row.failed
        THEN <<first, row_count_query(table_name, where_clause)>>
        ELSE <<first>>

\* analyze_column(table_name, column_info, optimization_config), given what
\* its queries return
analyze_column(table_name, column_info, optimization_config, row, total_rows) ==
    LET name == column_routine(column_info.data_type)
    IN  IF name = "analyze_string_column"
        THEN analyze_string_column(optimization_config, row, total_rows)
        ELSE IF name = "basic"
        THEN analyze_basic(optimization_config, row)
        ELSE analyze_counted_column(optimization_config, row)

\* what the calls on the profiler leave of the analyzer's state
KeepAnalyzer ==
    /\ UNCHANGED <<config, account_ids, owners, raw, counts, raised,
                   bcall, values, ranges, labels, buckets>>
    /\ UNCHANGED runvars

\* one call of analyze_column on a constructed profiler, with the
\* configuration analyze_table passes for the table
analyze_column_call ==
    \E table_name \in ProfiledTables : \E data_type \in DataTypes :
      \E row \in StatisticsOutcomes :
        LET optimization_config == optimization_config_of(profiler, table_name)
            where_clause == build_where_clause(optimization_config)
            column_info == [column_name |-> "c1", data_type |-> data_type]
        IN  \E total_rows \in get_table_row_count(table_name, where_clause, row.total_count) :
                /\ Fresh
                /\ profiler # <<>>
                /\ call' = "analyze_column"
                /\ args' = [table_name |-> table_name,
                            column_info |-> column_info,
                            optimization_config |-> optimization_config,
                            row |-> row]
                /\ routine' = column_routine(data_type)
                /\ queries' = column_queries(table_name, column_routine(data_type),
                                             optimization_config, row)
                /\ stats' = analyze_column(table_name, column_info,
                                           optimization_config, row, total_rows)
                /\ UNCHANGED <<profiler, tables>>
                /\ KeepAnalyzer

\* the column names of a table, in ORDINAL_POSITION order
ColumnNames == <<"c1", "c2", "c3", "c4">>

\* the types of the columns of the tables profiled
TableTypes == {"int", "varchar"}

\* the rows of information_schema.COLUMNS for a table: its columns in
\* ordinal order, their names distinct
Schemas ==
    UNION {[1..n -> TableTypes] : n \in 0..MaxLen}

schema_columns(types) ==
    [i \in 1..Len(types) |-> [column_name |-> ColumnNames[i], data_type |-> types[i]]]

\* what the statistics queries of one column of a profiled table return: the
\* query fails, or it sees two rows, one of them null
TableOutcomes ==
    {[failed |-> TRUE, total_count |-> 0, non_null_count |-> 0],
     [failed |-> FALSE, total_count |-> MaxRows, non_null_count |-> MaxRows - 1]}

\* s[:n]: the first n items, and for a negative n all but the last -n
py_slice(s, n) ==
    IF n >= 0
    THEN SubSeq(s, 1, IF n < Len(s) THEN n ELSE Len(s))
    ELSE SubSeq(s, 1, IF Len(s) + n > 0 THEN Len(s) + n ELSE 0)

\* [col for col in columns if col['column_name'] in key_columns]
key_columns_only(columns, key_columns) ==
    SelectSeq(columns, LAMBDA col : col.column_name \in key_columns)

\* columns_to_analyze of analyze_table
columns_to_analyze(p, table_name, columns) ==
    LET optimization_config == optimization_config_of(p, table_name)
        kept == IF /\ table_name \in DOMAIN p.large_table_configs
                   /\ "key_columns" \in DOMAIN optimization_config
                THEN key_columns_only(columns, optimization_config.key_columns)
                ELSE columns
    IN  py_slice(kept, p.max_columns_to_analyze)

\* the total get_table_row_count returns for a string column of a table
\* whose queries succeed when the server accepts them
table_row_count(table_name, where_clause, row) ==
    IF ValidSyntax(row_count_query(table_name, where_clause))
    THEN row.total_count ELSE 0

\* results['tables'][table_name] as analyze_table leaves it; rows[i] is what
\* the statistics query of the i-th analyzed column returns
table_document(p, table_name, columns, rows) ==
    LET optimization_config == optimization_config_of(p, table_name)
        where_clause == build_where_clause(optimization_config)
        analyzed == columns_to_analyze(p, table_name, columns)
    IN  [column_count |-> Len(columns),
         columns |->
             [i \in 1..Len(analyzed) |->
                 [name |-> analyzed[i].column_name,
                  doc |-> [data_type |-> analyzed[i].data_type,
                           statistics |->
                               analyze_column(table_name, analyzed[i],
                                              optimization_config, rows[i],
                                              table_row_count(table_name, where_clause, rows[i]))]]],
         is_large_table |-> table_name \in DOMAIN p.large_table_configs]
        @@ (IF optimization_config = EmptyDoc THEN EmptyDoc
            ELSE [optimization_applied |->
                     [sample_rate |-> optimization_config.sample_rate,
                      time_range_days |-> optimization_config.time_range_days,
                      key_columns_only |-> "key_columns" \in DOMAIN optimization_config]])

\* one call of analyze_table on a constructed profiler: the schema query
\* returns the table's columns, or fails and execute_query returns []
analyze_table_call ==
    \E table_name \in ProfiledTables : \E types \in Schemas :
      \E schema_failed \in BOOLEAN : \E rows \in [1..MaxLen -> TableOutcomes] :
        LET columns == IF schema_failed THEN <<>> ELSE schema_columns(types)
        IN  /\ Fresh
            /\ profiler # <<>>
            /\ call' = "analyze_table"
            /\ args' = [table_name |-> table_name,
                        schema |-> schema_columns(types),
                        schema_failed |-> schema_failed]
            /\ routine' = "none"
            /\ queries' = <<>>
            /\ stats' = EmptyDoc
            /\ tables' = dict_set(tables, table_name,
                                  table_document(profiler, table_name, columns, rows))
            /\ UNCHANGED profiler
            /\ KeepAnalyzer

NextProfiler ==
    \/ analyze_column_call
    \/ analyze_table_call

SpecProfiler == InitProfiler /\ [][NextProfiler]_vars

\* -------------------------------------------------- get_sample_account_ids
\* SampleAccountAnalyzer.get_sample_account_ids, called on an analyzer built
\* with the given account_ids and sample_size.

\* int(os.getenv('SAMPLE_SIZE', '1000')): any integer is accepted
SampleSizes == {-1, 0, 1, 2, 50}

\* the ids of account_base: a primary key, so distinct
AccountIdLists == PersonLists

\* COUNT(*) of account_base
AccountTotals == 0..Cardinality(Keys)

\* count_query and the sampling query
CountQuery == <<"SELECT COUNT(*) as total FROM", "account_base">>
SamplingQuery ==
    <<"SELECT id FROM", "account_base", "WHERE", "RAND() < sample_probability",
      "LIMIT sample_size">>

\* the sampling query returning every account that passes the filter
sampled_ids_unlimited(sample_size, total_accounts) ==
    {ids \in AccountIdLists : Len(ids) <= total_accounts}

\* what execute_query returns for the sampling query: [] when the query
\* fails, as it does for a negative LIMIT; else ids of accounts that passed
\* RAND() < sample_size / total_accounts, at most LIMIT sample_size of them
sampled_ids(sample_size, total_accounts) ==
    IF sample_size <= 0 THEN {<<>>}
    ELSE {ids \in AccountIdLists : Len(ids) <= total_accounts /\ Len(ids) <= sample_size}

get_sample_account_ids ==
    \E configured \in OwnerLists : \E sample_size \in SampleSizes :
      \E count_failed \in BOOLEAN : \E table_total \in AccountTotals :
        LET total_accounts == IF count_failed THEN 0 ELSE table_total
        IN  \E sampled \in sampled_ids(sample_size, total_accounts) :
                /\ Fresh
                /\ profiler = <<>>
                /\ call' = "get_sample_account_ids"
                /\ args' = [account_ids |-> configured,
                            sample_size |-> sample_size,
                            count_failed |-> count_failed,
                            table_total |-> table_total]
                /\ IF configured # <<>>
                   THEN /\ queries' = <<>>
                        /\ account_ids' = configured
                   ELSE IF total_accounts = 0
                   THEN /\ queries' = <<CountQuery>>
                        /\ account_ids' = <<>>
                   ELSE /\ queries' = <<CountQuery, SamplingQuery>>
                        /\ account_ids' = sampled
                /\ UNCHANGED <<config, owners, raw, counts, stats, raised,
                               bcall, values, ranges, labels, buckets>>
                /\ UNCHANGED <<runvars, profiler, routine, tables>>

\* a constructed analyzer with the default rate and window
InitSample ==
    /\ Init
    /\ config.activity_sample_rate = 1
    /\ config.activity_time_range_days = 90

SpecSample == InitSample /\ [][get_sample_account_ids]_vars

\* ----------------------------------------------------------------- claims

Analyses ==
    {"analyze_account_person_counts", "analyze_account_activity_counts",
     "analyze_person_activity_counts", "analyze_list_membership"}

\* the two analyses whose query samples rows and scales the count
SampledAnalyses ==
    {"analyze_account_activity_counts", "analyze_person_activity_counts"}

\* the last call was an analysis that returned a statistics document
ProducedStats == call \in Analyses /\ raised = "none" /\ DOMAIN stats # {}

\* C1: for an owner key list of size N and any grouped rows the query
\* returned (none, or rows for only some owners), the count list an analysis
\* builds has exactly N entries and with_related + without_related = N.
C1_Completeness ==
    ProducedStats =>
        /\ Len(counts) = Len(owners)
        /\ stats.sample_size = Len(owners)
        /\ stats.with_related + stats.without_related = Len(owners)

\* three owners, rows for only some of them: both kinds of owner are counted
C1_Witness ==
    /\ ProducedStats
    /\ Len(owners) = 3
    /\ DOMAIN raw # {}
    /\ Range(owners) \ DOMAIN raw # {}
    /\ stats.with_related > 0
    /\ stats.without_related > 0

\* C2: entry i of the count list is the count of owner i, in owner order:
\* 0 for an owner without a row, the row's count for an owner with one (as
\* returned for the unsampled queries, scaled by 1/rate and cut to an integer
\* for the sampled ones).
C2_PerOwnerCount ==
    ProducedStats =>
        \A i \in 1..Len(owners) :
            /\ i \in DOMAIN counts
            /\ counts[i] =
                 IF owners[i] \notin DOMAIN raw THEN 0
                 ELSE IF call \in SampledAnalyses
                      THEN (raw[owners[i]] * 100) \div config.activity_sample_rate
                      ELSE raw[owners[i]]

\* a sampled analysis whose first owner has no row and whose second has one
C2_Witness ==
    /\ ProducedStats
    /\ call = "analyze_account_activity_counts"
    /\ Len(owners) = 3
    /\ owners[1] \notin DOMAIN raw
    /\ owners[2] \in DOMAIN raw
    /\ counts[1] = 0
    /\ counts[2] > 0
    /\ counts[3] = 0

\* C3: with a sample rate in (0, 1] the corrected count of a raw count is
\* raw * (1/rate) rounded to the nearest integer, ties half up; the
\* unsampled analyses return the raw count unchanged.
C3_RoundHalfUp ==
    (ProducedStats /\ config.activity_sample_rate \in 1..100) =>
        \A i \in 1..Len(owners) :
            owners[i] \in DOMAIN raw =>
                counts[i] =
                    IF call \in SampledAnalyses
                    THEN (raw[owners[i]] * InverseRate(config.activity_sample_rate) + 50) \div 100
                    ELSE raw[owners[i]]

\* C4: a configuration with a sample rate <= 0 or > 1 is rejected with
\* InvalidPolicy by the constructor, so no analysis runs under it.
C4_InvalidPolicy ==
    (config.activity_sample_rate <= 0 \/ config.activity_sample_rate > 100) =>
        (call = "__init__" /\ raised = "InvalidPolicy")

\* range r contains the count v, bounds inclusive
Contains(r, v) == r[1] <= v /\ v <= r[2]

\* range i is the first of the table, in definition order, to contain v
FirstContaining(i, v) ==
    /\ Contains(ranges[i], v)
    /\ \A k \in 1..(i - 1) : ~Contains(ranges[k], v)

\* the member counts of the returned list, summed
RECURSIVE SumMembers(_)
SumMembers(bs) == IF bs = <<>> THEN 0 ELSE Head(bs).count + SumMembers(Tail(bs))

\* the percentages of the returned list, summed (hundredths of a percent)
RECURSIVE SumPercentages(_)
SumPercentages(bs) ==
    IF bs = <<>> THEN 0 ELSE Head(bs).percentage + SumPercentages(Tail(bs))

\* C5: each count goes to the first range, in definition order, whose
\* inclusive bounds contain it and to no other: the member count of label i is
\* the number of counts whose first containing range is range i, so no count
\* is counted twice even when ranges overlap.
C5_FirstMatchWins ==
    bcall =>
        /\ \A i \in 1..Len(labels) :
              buckets[i].count =
                  Cardinality({j \in 1..Len(values) : FirstContaining(i, values[j])})
        /\ SumMembers(buckets) <= Len(values)

\* a count that two ranges of the table contain
C5_Witness ==
    /\ bcall
    /\ \E j \in 1..Len(values) : \E i, k \in 1..Len(ranges) :
          /\ i < k
          /\ Contains(ranges[i], values[j])
          /\ Contains(ranges[k], values[j])
          /\ buckets[i].count > 0

\* C6: a count that no range of the table contains makes the classification
\* fail with UnbucketableValue.
C6_Unbucketable ==
    (bcall /\ \E j \in 1..Len(values) : \A i \in 1..Len(ranges) : ~Contains(ranges[i], values[j]))
        => raised = "UnbucketableValue"

\* C7: the percentage of every label is member_count * 100 / total_keys, to
\* the nearest hundredth, where total_keys is the length of the whole list of
\* counts (zero counts and counts in no range included); it is 0 when the
\* list is empty.
C7_PercentageOfTotal ==
    bcall =>
        \A i \in 1..Len(buckets) :
            LET p == buckets[i].percentage
                d == p * Len(values) - buckets[i].count * 10000
            IN  /\ Len(values) = 0 => p = 0
                /\ 2 * d <= Len(values)
                /\ -2 * d <= Len(values)

\* a list with a zero count and a count in no range, and a label whose
\* percentage is a third of the three counts
C7_Witness ==
    /\ bcall
    /\ Len(values) = 3
    /\ \E j \in 1..3 : values[j] = 0
    /\ \E j \in 1..3 : \A i \in 1..Len(ranges) : ~Contains(ranges[i], values[j])
    /\ \E i \in 1..Len(buckets) : buckets[i].count = 1 /\ buckets[i].percentage = 3333

\* C8: the result has exactly one entry per label, in the label order of the
\* table whatever the order of the counts, and a label without members is
\* emitted with member count 0.
C8_LabelOrder ==
    bcall =>
        /\ Len(buckets) = Len(labels)
        /\ \A i \in 1..Len(labels) :
              /\ buckets[i].range = labels[i]
              /\ (\A j \in 1..Len(values) : ~FirstContaining(i, values[j]))
                    => buckets[i].count = 0

\* counts in descending order, the first label empty and a later one not
C8_Witness ==
    /\ bcall
    /\ Len(values) = 2
    /\ values[1] > values[2]
    /\ Len(buckets) > 2
    /\ buckets[1].count = 0
    /\ buckets[2].count > 0

\* the table is disjoint, ascending and covers every count from 0 on
ExhaustiveTable ==
    /\ Len(ranges) > 0
    /\ Len(labels) = Len(ranges)
    /\ ranges[1][1] = 0
    /\ ranges[Len(ranges)][2] = Inf
    /\ \A i \in 1..Len(ranges) : ranges[i][1] <= ranges[i][2]
    /\ \A i \in 1..(Len(ranges) - 1) : ranges[i + 1][1] = ranges[i][2] + 1

\* C9: for a non-empty list of counts classified by an exhaustive table, the
\* percentages of all labels sum to 100.0 within 0.1.
C9_PercentagesSum ==
    (bcall /\ values # <<>> /\ ExhaustiveTable) =>
        /\ SumPercentages(buckets) >= 10000 - 10
        /\ SumPercentages(buckets) <= 10000 + 10

\* three counts in three labels: 33.33 each, 99.99 in all
C9_Witness ==
    /\ bcall
    /\ ExhaustiveTable
    /\ Len(values) = 3
    /\ SumPercentages(buckets) = 9999

\* C10: for an empty owner set every analysis (under a sample rate in (0, 1])
\* returns a document whose avg, min, max and std are 0 and whose with_related
\* and without_related are 0.
C10_EmptyOwnerStats ==
    (call \in Analyses /\ raised = "none" /\ owners = <<>>
        /\ config.activity_sample_rate \in 1..100) =>
        /\ {"avg", "min", "max", "std", "with_related", "without_related"} \subseteq DOMAIN stats
        /\ stats.avg = 0
        /\ stats.min = 0
        /\ stats.max = 0
        /\ stats.std = 0
        /\ stats.with_related = 0
        /\ stats.without_related = 0

\* n^2 times the population variance of the count list: n sum(x^2) - sum(x)^2
PopulationRadicand ==
    LET n == Len(counts)
    IN  n * SumSeq([i \in 1..n |-> counts[i] * counts[i]]) - SumSeq(counts) * SumSeq(counts)

\* C11: the reported standard deviation is the population standard deviation
\* of the count list (squared deviations from the mean divided by N, not by
\* N - 1), to the nearest hundredth, and it is 0 for fewer than 2 counts.
\* With s the reported value in hundredths and R = N^2 * variance, s is the
\* nearest hundredth of sqrt(R)/N iff (2s - 1) N <= 200 sqrt(R) <= (2s + 1) N.
C11_PopulationStd ==
    ProducedStats =>
        /\ Len(counts) < 2 => stats.std = 0
        /\ Len(counts) >= 2 =>
              /\ (2 * stats.std - 1) * Len(counts) <= Sqrt200(PopulationRadicand)
              /\ Sqrt200(PopulationRadicand) <= (2 * stats.std + 1) * Len(counts)

\* three counts that are not all equal: population std > 0 and below the
\* sample std
C11_Witness ==
    /\ ProducedStats
    /\ Len(counts) = 3
    /\ counts[1] # counts[2]
    /\ stats.std > 0

\* C12: over the count list of an analysis, with_related is the number of
\* entries > 0, without_related the number of entries = 0, total_related the
\* sum of the entries, avg is total_related divided by the number of entries
\* (to the nearest hundredth), min and max the smallest and largest entry.
C12_Statistics ==
    (ProducedStats /\ counts # <<>>) =>
        LET n == Len(counts)
            d == stats.avg * n - 100 * stats.total_related
        IN  /\ stats.with_related = Cardinality({i \in 1..n : counts[i] > 0})
            /\ stats.without_related = Cardinality({i \in 1..n : counts[i] = 0})
            /\ stats.total_related = SumSeq(counts)
            /\ 2 * d <= n /\ -2 * d <= n
            /\ \E i \in 1..n : stats.min = counts[i]
            /\ \A i \in 1..n : stats.min <= counts[i]
            /\ \E i \in 1..n : stats.max = counts[i]
            /\ \A i \in 1..n : stats.max >= counts[i]

\* three owners, one without a related record, two with different counts:
\* the average over all three is not the average over the two
C12_Witness ==
    /\ ProducedStats
    /\ Len(counts) = 3
    /\ stats.without_related = 1
    /\ stats.with_related = 2
    /\ stats.min = 0
    /\ stats.max > 1
    /\ stats.avg * 3 # stats.total_related * 100
    /\ stats.total_related = counts[1] + counts[2] + counts[3]

\* the raw count of every owner of the last call corrected on its own, in
\* owner order
PerKeyCorrected ==
    [i \in 1..Len(owners) |->
        IF owners[i] \in DOMAIN raw
        THEN (raw[owners[i]] * 100) \div config.activity_sample_rate
        ELSE 0]

\* the raw counts of the owners of the last call, in owner order
PerKeyRaw ==
    [i \in 1..Len(owners) |-> IF owners[i] \in DOMAIN raw THEN raw[owners[i]] ELSE 0]

\* C13: in a sampled analysis the correction is applied to the count of each
\* key before any statistic is computed: total_related is the sum of the
\* per-key corrected counts, and avg, min, max, std and the bucket counts are
\* taken over the sequence of corrected counts.
C13_CorrectionPerKey ==
    (ProducedStats /\ call \in SampledAnalyses /\ config.activity_sample_rate > 0) =>
        LET cs == PerKeyCorrected
            n == Len(cs)
            d == stats.avg * n - 100 * SumSeq(cs)
        IN  /\ counts = cs
            /\ stats.total_related = SumSeq(cs)
            /\ 2 * d <= n /\ -2 * d <= n
            /\ cs # <<>> => stats.min = MinSeq(cs) /\ stats.max = MaxSeq(cs)
            /\ stats.std = RoundStd2(calculate_std(cs))
            /\ values = cs
            /\ stats.buckets = buckets
            /\ \A i \in 1..Len(labels) :
                  buckets[i].count = Cardinality({j \in 1..n : FirstContaining(i, cs[j])})

\* rate 0.4 and two keys with one sampled row each: the corrected counts
\* are 2 and 2 and total_related is 4, where correcting the summed raw
\* count 2 would give 5
C13_Witness ==
    /\ ProducedStats
    /\ call \in SampledAnalyses
    /\ config.activity_sample_rate = 40
    /\ PerKeyRaw = <<1, 1>>
    /\ stats.total_related = 4
    /\ (SumSeq(PerKeyRaw) * 100) \div config.activity_sample_rate = 5

\* C15: end to end without sampling, for owners [1, 2, 3, 4], raw counts
\* {1: 2, 3: 9} and the bucket table [(0,0,'0'), (1,5,'1-5'), (6,inf,'6+')]:
\* the distribution is [2, 0, 9, 0], avg 2.75, min 0, max 9, and the buckets
\* are '0': 2 (50.0%), '1-5': 1 (25.0%), '6+': 1 (25.0%).
C15_EndToEnd ==
    (/\ call = "_create_buckets"
     /\ owners = <<1, 2, 3, 4>>
     /\ raw = (1 :> 2 @@ 3 :> 9)
     /\ ranges = << <<0, 0>>, <<1, 5>>, <<6, Inf>> >>
     /\ labels = <<"0", "1-5", "6+">>) =>
        /\ counts = <<2, 0, 9, 0>>
        /\ values = counts
        /\ stats.avg = 275
        /\ stats.min = 0
        /\ stats.max = 9
        /\ buckets = << [range |-> "0",   count |-> 2, percentage |-> 5000],
                        [range |-> "1-5", count |-> 1, percentage |-> 2500],
                        [range |-> "6+",  count |-> 1, percentage |-> 2500] >>

\* the analysis ran on the owners and rows of the example and its count list
\* was classified by the table of the example
C15_Witness ==
    /\ call = "_create_buckets"
    /\ bcall
    /\ owners = <<1, 2, 3, 4>>
    /\ raw = (1 :> 2 @@ 3 :> 9)
    /\ labels = <<"0", "1-5", "6+">>
    /\ stats.sample_size = 4
    /\ Len(buckets) = 3

\* C16: under an exhaustive table the member counts of all labels sum to the
\* number of counts classified; with the ranges 0, 1-5, 6-10, 11+ the list
\* [0, 3, 10, 50] gives every label member count 1 and 25.0%.
C16_MembersSum ==
    /\ (bcall /\ ExhaustiveTable) => SumMembers(buckets) = Len(values)
    /\ (/\ bcall
        /\ values = <<0, 3, 10, 50>>
        /\ ranges = << <<0, 0>>, <<1, 5>>, <<6, 10>>, <<11, Inf>> >>
        /\ labels = <<"0", "1-5", "6-10", "11+">>) =>
            /\ Len(buckets) = 4
            /\ \A i \in 1..4 :
                  buckets[i] = [range |-> labels[i], count |-> 1, percentage |-> 2500]

\* the list of the example classified by the four-label table
C16_Witness ==
    /\ bcall
    /\ ExhaustiveTable
    /\ values = <<0, 3, 10, 50>>
    /\ labels = <<"0", "1-5", "6-10", "11+">>
    /\ SumMembers(buckets) = 4

\* the number of ranges of the table that contain the count v
RangesContaining(v) == Cardinality({i \in 1..Len(ranges) : Contains(ranges[i], v)})

\* the ends of every range of the table and the counts next to them
RangeEnds ==
    UNION {{ranges[i][1], ranges[i][2]} \cup
           (IF ranges[i][2] < Inf THEN {ranges[i][2] + 1} ELSE {}) \cup
           (IF ranges[i][1] > 0 THEN {ranges[i][1] - 1} ELSE {}) : i \in 1..Len(ranges)}

\* C17: the bucket table each of the account-person, account-activity and
\* person-activity analyses passes to _create_buckets is ascending, disjoint
\* and covers every non-negative integer: it starts at 0, every range starts
\* one above the end of the one before, the last ends at infinity, and so
\* every count lies in exactly one range.
C17_ProgramTables ==
    (call \in Analyses /\ bcall) =>
        /\ ExhaustiveTable
        /\ \A v \in RangeEnds \cup Range(values) : RangesContaining(v) = 1
        /\ SumMembers(buckets) = Len(values)

\* the person-activity analysis passed its seven-range table, with counts
\* in two different ranges
C17_Witness ==
    /\ call = "analyze_person_activity_counts"
    /\ bcall
    /\ Len(ranges) = 7
    /\ ranges[Len(ranges)] = <<1001, Inf>>
    /\ \E i, j \in 1..Len(buckets) : i # j /\ buckets[i].count > 0 /\ buckets[j].count > 0

\* the document is an explicit failure entry: it is not {} and it is not a
\* statistics document
SurfacedAsFailure(doc) ==
    /\ DOMAIN doc # {}
    /\ "total_related" \notin DOMAIN doc
    /\ "total_types" \notin DOMAIN doc

\* C18: a relationship analysis that failed (a query of it failed, or it
\* produced no document) appears in the aggregate report as an explicit
\* failure: its entry is present, is not the empty document and is not an
\* ordinary (all-zero) statistics document.
C18_FailureSurfaced ==
    (config.activity_sample_rate \in 1..100) =>
        \A i \in 1..Len(StepKeys) :
            (StepKeys[i] \in failures \/
             (HasKey(results, StepKeys[i]) /\ dict_get(results, StepKeys[i]) = EmptyDoc)) =>
                /\ HasKey(results, StepKeys[i])
                /\ SurfacedAsFailure(dict_get(results, StepKeys[i]))

\* the analysis methods run() calls
RunAnalyses == Analyses \cup {"analyze_activity_types"}

\* the analysis run() called last raised an exception
AnalysisRaised == call \in RunAnalyses /\ raised # "none"

\* run() is over and every step has left an entry in the report, which
\* save_results has written
EveryStepRecorded ==
    /\ pc \in {"returned", "raised"}
    /\ \A i \in 1..Len(StepKeys) : HasKey(results, StepKeys[i])
    /\ saved = <<results>>

\* C19: when an analysis raises during a run, the run records a failure for
\* it and goes on to perform every remaining analysis, and the results
\* computed before are kept: the run ends with an entry for each of its five
\* steps, written out by save_results.
C19_ContinuesAfterError == AnalysisRaised ~> EveryStepRecorded

\* a step of run() leaves every entry of the report as it is and in its
\* place, and adds at most one entry, under a name the report does not hold
AddsOnlyNewNames ==
    /\ Len(results') \in {Len(results), Len(results) + 1}
    /\ \A i \in 1..Len(results) : results'[i] = results[i]
    /\ Len(results') = Len(results) + 1 =>
          ~HasKey(results, results'[Len(results')].name)

ReportNames(d) == [i \in 1..Len(d) |-> d[i].name]

\* the order in which run() adds its documents
AddOrder ==
    <<"account_person", "account_activity", "person_activity", "account_list",
      "activity_types">>

\* C21: the aggregate report lists the relationships in the order run() added
\* their documents, account_person, account_activity, person_activity,
\* account_list, activity_types, in every run: at every point of every run the
\* names of the report are the first names of that order, and the file
\* save_results writes lists all five in that order.
C21_ReportOrder ==
    /\ Len(results) <= Len(AddOrder)
    /\ ReportNames(results) = SubSeq(AddOrder, 1, Len(results))
    /\ saved # <<>> => ReportNames(saved[1]) = AddOrder

\* a run that added its five documents and wrote them out
C21_Witness ==
    /\ pc = "returned"
    /\ raised = "none"
    /\ ReportNames(results) = AddOrder
    /\ saved # <<>>
    /\ ReportNames(saved[1]) = AddOrder

\* the corrected count of a raw count under a sample rate, as a function of
\* these two alone
RateCorrected(raw_count, rate) == (raw_count * 100) \div rate

\* C22: the time window never rescales counts: in a sampled analysis the
\* corrected count of an owner is determined by its raw count and the sample
\* rate alone, whatever time_range_days is, and the document reports the
\* window length as time_range_days.
C22_WindowNeverRescales ==
    (ProducedStats /\ call \in SampledAnalyses /\ config.activity_sample_rate > 0) =>
        /\ \A i \in 1..Len(owners) :
              counts[i] = IF owners[i] \in DOMAIN raw
                          THEN RateCorrected(raw[owners[i]], config.activity_sample_rate)
                          ELSE 0
        /\ "time_range_days" \in DOMAIN stats
        /\ stats.time_range_days = config.activity_time_range_days

\* a sampled analysis under a window of 30 days instead of the default 90,
\* rate 0.4, with an owner whose raw count 3 is corrected to 7
C22_Witness ==
    /\ ProducedStats
    /\ call = "analyze_account_activity_counts"
    /\ config.activity_time_range_days = 30
    /\ config.activity_sample_rate = 40
    /\ stats.time_range_days = 30
    /\ \E i \in 1..Len(owners) :
          /\ owners[i] \in DOMAIN raw
          /\ raw[owners[i]] = 3
          /\ counts[i] = 7

\* x (in hundredths) is the value num/den rounded to 2 decimals: it is within
\* half a hundredth of the exact quotient
NearestHundredth(x, num, den) ==
    LET d == x * den - 100 * num
    IN  2 * d <= den /\ -2 * d <= den

IntegerTypes == {"int", "bigint", "tinyint", "smallint", "mediumint"}
DecimalTypes == {"decimal"}
FloatTypes == {"float", "double"}
CharacterTypes == {"varchar", "char"}
TextTypes == {"text", "mediumtext", "longtext"}

\* the routine a lower-cased type is routed to
RoutineOfType(t) ==
    IF t \in IntegerTypes \cup DecimalTypes \cup FloatTypes THEN "analyze_numeric_column"
    ELSE IF t \in CharacterTypes \cup TextTypes \cup {"boolean"} THEN "analyze_string_column"
    ELSE IF t \in {"datetime", "date", "timestamp"} THEN "analyze_datetime_column"
    ELSE IF t = "json" THEN "analyze_json_column"
    ELSE "basic"

\* C24: analyze_column hands every column to exactly one routine, which the
\* lower-cased data type alone determines, whatever the table, its
\* optimization configuration and the rows: integer, decimal and float types
\* go to the numeric routine, varchar, char, the text types text, mediumtext
\* and longtext, and boolean to the string routine, datetime, date and
\* timestamp to the datetime routine, json to the json routine, and every
\* other type to the basic total/non-null count query.
C24_RoutedByType ==
    call = "analyze_column" =>
        /\ routine = RoutineOfType(Lower(args.column_info.data_type))
        /\ Len(queries) = IF routine = "analyze_string_column" /\ ~args.row.failed
                          THEN 2 ELSE 1
        /\ (routine = "basic" => "optimization_applied" \notin DOMAIN stats)

\* a column typed BOOLEAN of the optimized table went to the string routine
C24_Witness ==
    /\ call = "analyze_column"
    /\ args.column_info.data_type = "BOOLEAN"
    /\ args.table_name = "activity"
    /\ routine = "analyze_string_column"
    /\ DOMAIN stats # {}

\* the document analyze_table recorded for the table it was called on
AnalyzedTable == dict_get(tables, args.table_name)

\* the table's columns that pass the key-column filter of its configuration
FilteredSchema ==
    LET optimization_config == optimization_config_of(profiler, args.table_name)
    IN  IF "key_columns" \in DOMAIN optimization_config
        THEN SelectSeq(args.schema,
                       LAMBDA col : col.column_name \in optimization_config.key_columns)
        ELSE args.schema

\* C25: for every analyzed table the columns with recorded statistics are at
\* most max_columns_to_analyze and are the first columns in ordinal order
\* (after key-column filtering), and the recorded column_count is the
\* table's full column count.
C25_ColumnLimit ==
    call = "analyze_table" =>
        /\ Len(AnalyzedTable.columns) <= profiler.max_columns_to_analyze
        /\ Len(AnalyzedTable.columns) <= Len(FilteredSchema)
        /\ \A i \in 1..Len(AnalyzedTable.columns) :
               i <= Len(FilteredSchema) =>
                   AnalyzedTable.columns[i].name = FilteredSchema[i].column_name
        /\ AnalyzedTable.column_count = Len(args.schema)

\* the last call produced a column statistics document
ColumnStatistics == call = "analyze_column" /\ DOMAIN stats # {}

\* C28: every column statistics document has null_count >= 0 and
\* total_count = non_null_count + null_count, for every column type, with
\* and without a large-table optimization configuration.
C28_CountsConsistent ==
    ColumnStatistics =>
        /\ stats.null_count >= 0
        /\ stats.total_count = stats.non_null_count + stats.null_count

\* C26: get_sample_account_ids returns the configured account_ids unchanged,
\* whatever sample_size is and without a query, whenever any are configured;
\* otherwise it returns at most sample_size ids (for a sample size >= 0; a
\* negative one yields no id); and it returns [] without sending the
\* sampling query when account_base has no rows or the count query fails.
C26_SampleIds ==
    call = "get_sample_account_ids" =>
        /\ args.account_ids # <<>> =>
               account_ids = args.account_ids /\ queries = <<>>
        /\ args.account_ids = <<>> =>
               /\ args.sample_size >= 0 => Len(account_ids) <= args.sample_size
               /\ args.sample_size < 0 => account_ids = <<>>
               /\ (args.count_failed \/ args.table_total = 0) =>
                      account_ids = <<>> /\ queries = <<CountQuery>>

\* two accounts, sample size 1, nothing configured: one id was sampled
C26_Witness ==
    /\ call = "get_sample_account_ids"
    /\ args.account_ids = <<>>
    /\ args.sample_size = 1
    /\ args.table_total = 2
    /\ ~args.count_failed
    /\ Len(account_ids) = 1
    /\ queries = <<CountQuery, SamplingQuery>>

\* run() is over: it returned, or its exception left it
RunOver == pc \in {"returned", "raised"}

\* C27: every run that opened a connection eventually closes it, whether
\* its steps complete or one of them raises; once run has returned or
\* raised, no connection it opened is left open.
C27_ConnectionClosed ==
    /\ (connection = "open") ~> (connection = "closed")
    /\ [](RunOver => connection # "open")

\* a run that opened the connection, raised in print_summary and closed it
C27_Witness ==
    /\ pc = "raised"
    /\ raised = "KeyError"
    /\ connection = "closed"

\* the exceptions that reach run from outside its steps: the database
\* refusing the connection, the file system refusing the output file
ExternalErrors == {"OperationalError", "OSError"}

\* C29: with a valid sampling rate, run completes without raising for every
\* outcome its own analysis steps produce; in particular, when the sampled
\* accounts have no persons and person_activity is stored as {}, saving and
\* print_summary both succeed.
C29_RunCompletes ==
    config.activity_sample_rate \in 1..100 =>
        /\ raised \in {"none"} \cup ExternalErrors
        /\ (/\ call = "print_summary"
            /\ HasKey(results, PersonActivityKey)
            /\ dict_get(results, PersonActivityKey) = EmptyDoc) => raised = "none"

\* the owners the sampled query returned a row for
RelatedOwners == {i \in 1..Len(owners) : owners[i] \in DOMAIN raw}

\* C30: the sampling correction never turns a related owner into an
\* unrelated one: for every rate in (0, 1] and every raw count >= 1 the
\* corrected count is >= the raw count and > 0, so the owner is counted in
\* with_related and not in the '0' bucket.
C30_RelatedStaysRelated ==
    (/\ ProducedStats
     /\ call \in SampledAnalyses
     /\ config.activity_sample_rate \in 1..100) =>
        /\ \A i \in RelatedOwners :
               /\ raw[owners[i]] >= 1
               /\ counts[i] >= raw[owners[i]]
               /\ counts[i] > 0
        /\ stats.with_related = Cardinality(RelatedOwners)
        /\ buckets[1].range = "0"
        /\ buckets[1].count = Len(owners) - Cardinality(RelatedOwners)

\* rate 1.0, where the correction is the identity, and a raw count of 1: the
\* owner stays related with the smallest corrected count there is
C30_Witness ==
    /\ ProducedStats
    /\ call = "analyze_account_activity_counts"
    /\ config.activity_sample_rate = 100
    /\ \E i \in RelatedOwners : raw[owners[i]] = 1 /\ counts[i] = 1
    /\ Len(owners) > Cardinality(RelatedOwners)
    /\ stats.with_related = Cardinality(RelatedOwners)
    /\ buckets[1].count = Len(owners) - Cardinality(RelatedOwners)

====
